---------------------------- MODULE Spec2Model ----------------------------
(***************************************************************************)
(* Model of aetros/starter.py: the job supervisor (start, start_custom,    *)
(* execute_command, execute_command_stdout, start_keras).                  *)
(*                                                                         *)
(* The control thread is a program counter pc over the statements of the   *)
(* source; the processes it spawns, the two stream drain tasks and the     *)
(* external interrupt (KeyboardInterrupt) are separate actions that        *)
(* interleave with it.                                                     *)
(***************************************************************************)
EXTENDS Integers, Sequences, FiniteSets, TLC

(***************************************************************************)
(* Bounds of the model.                                                    *)
(***************************************************************************)
\* number of external interrupts delivered in one run
MaxInterrupts == 2
\* child exit codes 0..MaxSmallCode are enumerated next to the named ones
MaxSmallCode == 2
\* chunks a process writes to one stream, at most
MaxChunks == 2
\* chunks a pipe holds before a write blocks
PipeCapacity == 1

(***************************************************************************)
(* Python values.  A value is a record [t, v]: t is the Python type        *)
(* ("absent" = key not in the mapping, "none", "str", "list"), v the       *)
(* content as a sequence (of the items of a list; a string holds its text  *)
(* as the sequence of its parts).                                          *)
(***************************************************************************)
Absent == [t |-> "absent", v |-> <<>>]
None == [t |-> "none", v |-> <<>>]
Str(parts) == [t |-> "str", v |-> parts]
List(items) == [t |-> "list", v |-> items]

\* isinstance(x, six.string_types), isinstance(x, list)
IsStr(x) == x.t = "str"
IsList(x) == x.t = "list"
\* key not in mapping; x == ''
IsAbsent(x) == x.t = "absent"
IsEmptyStr(x) == x.t = "str" /\ Len(x.v) = 0
\* Python truth value of None, a string or a list
Truthy(x) == x.t \in {"str", "list"} /\ Len(x.v) > 0

(***************************************************************************)
(* Build files.  A text is the sequence of its lines (split at "\n"), a    *)
(* line the sequence of its words (split at " "): "FROM img" is            *)
(* <<"FROM", "img">>, " RUN b" is <<"", "RUN", "b">>.                      *)
(***************************************************************************)
ImageName == "img"
ModelName == "owner/model"
JobId == "job1"
WorkTree == "/wt"
Docker == "docker"
DockerOptions == <<"--rm", "-t">>

\* line 103: the provenance comment that prefixes every synthesized file
CreatedComment == <<"#", "CREATED", "BY", "AETROS">>

\* str.startswith('FROM ')
StartsWithFrom(line) == Len(line) >= 2 /\ line[1] = "FROM"

\* 'FROM ' + image
FromLine(img) == <<"FROM", img>>

\* '\n RUN '.join(install) appended to 'FROM <image>\nRUN ': the first item
\* continues the "RUN " line, every later one starts a line " RUN <item>"
InstallListLines(items) ==
    IF Len(items) = 0 THEN << <<"RUN", "">> >>
    ELSE << <<"RUN", items[1]>> >>
         \o [i \in 1..(Len(items) - 1) |-> <<"", "RUN", items[i + 1]>>]

\* a Python int
PyInt(n) == [t |-> "int", v |-> <<n>>]

\* list.insert(index, object): raises TypeError unless index is an int;
\* else the items with object put before position index
ListInsert(items, index, object) ==
    IF index.t # "int"
    THEN [ok |-> FALSE, v |-> items]
    ELSE [ok |-> TRUE,
          v |-> SubSeq(items, 1, index.v[1]) \o <<object.v>>
                \o SubSeq(items, index.v[1] + 1, Len(items))]

\* line 92: dockerfile.insert('FROM ' + image, 0), the line is passed as the
\* index and 0 as the object
InsertFromLine(dockerfile, img) == ListInsert(dockerfile.v, Str(FromLine(img)), PyInt(0))

\* lines 88-104: the content of the synthesized Dockerfile (ok), or the
\* synthesis raises (~ok)
SynthesizeDockerfile(dockerfile, install, img) ==
    IF IsStr(dockerfile)
    THEN [ok |-> TRUE, content |-> <<CreatedComment>> \o dockerfile.v]
    ELSE IF IsList(dockerfile) /\ Len(dockerfile.v) > 0
    THEN IF ~StartsWithFrom(dockerfile.v[1])
         THEN LET ins == InsertFromLine(dockerfile, img)
              IN  [ok |-> ins.ok, content |-> <<CreatedComment>> \o ins.v]
         ELSE [ok |-> TRUE, content |-> <<CreatedComment>> \o dockerfile.v]
    ELSE IF IsList(install)
    THEN [ok |-> TRUE,
          content |-> <<CreatedComment, FromLine(img)>> \o InstallListLines(install.v)]
    ELSE [ok |-> TRUE,
          content |-> <<CreatedComment, FromLine(img), <<"RUN">> \o install.v>>]


(***************************************************************************)
(* Configurations.  job_config is job_backend.job['config'] (line 63),     *)
(* project_config what read_config returns (line 61); dockerfile_exists is *)
(* os.path.exists(dockerfile) (line 87).                                   *)
(***************************************************************************)
JobCommands == {Absent, Str(<<"jobcmd">>), List(<<"python", "job.py">>)}
ProjectCommands ==
    {Absent, Str(<<>>), Str(<<"projcmd">>), List(<<"python", "proj.py">>)}
JobImages == {Absent, Str(<<ImageName>>)}

Dockerfiles ==
    {None, Str(<<>>), List(<<>>),
     Str(<< <<"FROM", "base">>, <<"RUN", "make">> >>),
     Str(<< <<"RUN", "make">> >>),
     List(<< <<"FROM", "base">>, <<"RUN", "make">> >>),
     List(<< <<"FROM", ImageName>>, <<"RUN", "make">> >>),
     List(<< <<"RUN", "make">> >>)}
DockerfilePath == Str(<< <<"build/Dockerfile">> >>)
Installs == {None, Str(<<"pip install x">>), List(<<"a", "b">>)}

ProjectConfig(cmd, df, exists, inst) ==
    [command |-> cmd, dockerfile |-> df, dockerfile_exists |-> exists,
     install |-> inst]

\* every command configuration, without and with an image that needs no build
CommandConfigs ==
    {[job |-> [command |-> jc, image |-> im],
      project |-> ProjectConfig(pcmd, None, FALSE, None)] :
        jc \in JobCommands, pcmd \in ProjectCommands, im \in JobImages}

\* the provisioning configurations, over one command configuration (the
\* dockerfile and install keys are read only when an image is set, line 81;
\* install is read only when dockerfile is false or no string and no
\* non-empty list, lines 84 and 98-101)
FalseDockerfiles == {d \in Dockerfiles : ~Truthy(d)}
Provisioning ==
    {<<df, FALSE, None>> : df \in Dockerfiles}
    \cup {<<df, FALSE, inst>> : df \in FalseDockerfiles, inst \in Installs}
    \cup {<<DockerfilePath, TRUE, inst>> : inst \in Installs}

ProvisionConfigs ==
    {[job |-> [command |-> Str(<<"jobcmd">>), image |-> Str(<<ImageName>>)],
      project |-> ProjectConfig(Absent, x[1], x[2], x[3])] :
        x \in Provisioning}

Configs == CommandConfigs \cup ProvisionConfigs

\* the configuration of the simple-model runs (start_keras reads only epochs)
SimpleConfig ==
    [job |-> [command |-> Absent, image |-> Absent],
     project |-> ProjectConfig(Absent, None, FALSE, None)]

(***************************************************************************)
(* Exit codes.  Popen.returncode is the exit status 0..255, or -N when the *)
(* process was killed by signal N.                                         *)
(***************************************************************************)
ExitCodes == (0..MaxSmallCode) \cup {37, 255, -2}
ToolCodes == {0, 1}

\* a supervisor that exits 1 on every failure instead of passing the code on
SysExitOneOnFailure(n) == IF n = 0 THEN 0 ELSE 1

\* sys.exit(n) for an int n: the process exit status is n & 0xFF
SysExit(n) == n % 256

(***************************************************************************)
(* State.                                                                  *)
(***************************************************************************)
VARIABLES
    pc,              \* the statement the control thread is at
    job_config,      \* line 63
    project_config,  \* line 61
    simple,          \* job_backend.is_simple_model(), line 40
    command,         \* start_custom's command (lines 69-72, 168, 171)
    image,           \* start_custom's image (lines 74-76, 128)
    dockerfile,      \* start_custom's dockerfile (lines 85, 109)
    p,               \* start_custom's p (line 175, 180): "none" or "set"
    wait_stdout,     \* line 176, 181: TRUE once the finalizer is assigned
    wait_stderr,     \* line 177, 182
    inspection,      \* line 137: the set of fields of inspections[0]
    bi,              \* next set_system_info of the batch, lines 139-146
    call,            \* which execute_command call is running
    files,           \* work tree: the lines of ./Dockerfile, <<>> if none
    status,          \* the job's lifecycle state
    system_info,     \* committed keys of system_info
    exit_code,       \* values written to system_info exit_code, in order
    committed,       \* files committed with commit_file
    batchOpen,       \* a batch_commit scope is open
    pending,         \* keys written inside the open scope
    status_file,     \* git.has_file('aetros/job/status/progress.json')
    proc,            \* the process last spawned
    drain,           \* the drain tasks of its stdout and stderr
    fin,             \* which drain finalizers have returned
    interrupts,      \* interrupts delivered so far
    exit,            \* how the supervisor process ended
    termCalls,       \* fail/abort/stop/done calls applied, in order
    spawned,         \* kinds of the processes spawned, in order
    rcs,             \* return codes of the processes that exited
    classif,         \* what held when the interrupt handler classified
    errors,          \* logger.error calls
    started,         \* job_backend.start() was called, line 38
    written,         \* chunks the process wrote to each stream, in order
    pipe,            \* chunks in each pipe, not yet read by a drain task
    sink,            \* chunks of the process forwarded to the log, in order
    spawn_args       \* what each spawned process was given, in order

cfgv == <<job_config, project_config, simple>>
localv == <<command, image, dockerfile, p, wait_stdout, wait_stderr,
            inspection, bi, call>>
storev == <<status, system_info, exit_code, committed, batchOpen, pending>>
procv == <<proc, drain, fin>>
pipev == <<written, pipe, sink, spawn_args>>
histv == <<termCalls, spawned, rcs, classif, errors>>
vars == <<pc, cfgv, started, pipev, localv, files, storev, status_file,
          procv, interrupts, exit, histv>>

NoImage == "<None>"
NoProc == [kind |-> "none", state |-> "none", rc |-> 0]
NoDrain == [out |-> "none", err |-> "none"]
NoFin == [out |-> FALSE, err |-> FALSE]
Running == [kind |-> "running", code |-> 0]
Ended(kind, code) == [kind |-> kind, code |-> code]
NoClassif == [done |-> FALSE, exited |-> FALSE, out |-> FALSE, err |-> FALSE,
              file |-> FALSE]
Kinds == {"build", "pull", "inspect", "rm", "cmd"}
Streams == {"out", "err"}
NoChunks == [s \in Streams |-> <<>>]

Init ==
    /\ pc = "start"
    /\ simple \in BOOLEAN
    /\ \E c \in (IF simple THEN {SimpleConfig} ELSE Configs) :
          /\ job_config = c.job
          /\ project_config = c.project
    /\ command = None
    /\ image = NoImage
    /\ dockerfile = None
    /\ p = "none"
    /\ wait_stdout = FALSE
    /\ wait_stderr = FALSE
    /\ inspection = {}
    /\ bi = 1
    /\ call = "none"
    /\ files = <<>>
    /\ status = "Created"
    /\ system_info = {}
    /\ exit_code = <<>>
    /\ committed = {}
    /\ batchOpen = FALSE
    /\ pending = {}
    /\ status_file = FALSE
    /\ proc = NoProc
    /\ drain = NoDrain
    /\ fin = NoFin
    /\ interrupts = 0
    /\ exit = Running
    /\ termCalls = <<>>
    /\ spawned = <<>>
    /\ rcs = [k \in Kinds |-> <<>>]
    /\ classif = NoClassif
    /\ errors = 0
    /\ started = FALSE
    /\ written = NoChunks
    /\ pipe = NoChunks
    /\ sink = NoChunks
    /\ spawn_args = <<>>


(***************************************************************************)
(* The job record (JobBackend and its store).                              *)
(***************************************************************************)
\* job_backend.fail / abort / stop / done: the terminal transition is
\* applied to the job
Terminal(name, state) ==
    /\ status' = state
    /\ termCalls' = Append(termCalls, name)

\* job_backend.set_system_info(key, ...): applied when the enclosing scope
\* commits, or at once if no scope is open
SetSystemInfo(key) ==
    IF batchOpen
    THEN pending' = pending \cup {key} /\ system_info' = system_info
    ELSE system_info' = system_info \cup {key} /\ pending' = pending

\* leaving a batch_commit scope by an exception: nothing of it is committed
AbandonBatch ==
    /\ batchOpen' = FALSE
    /\ pending' = {}

\* an exception nothing catches ends the process with a traceback, status 1
Uncaught(kind) ==
    /\ pc' = "ended"
    /\ exit' = Ended(kind, 1)
    /\ AbandonBatch

(***************************************************************************)
(* start, lines 20-43                                                      *)
(***************************************************************************)
\* lines 25-37: section('checkout'), fetch, restart
StartCheckout ==
    /\ pc = "start"
    /\ status' = "Checkout"
    /\ pc' = "s_start"
    /\ UNCHANGED <<cfgv, started, pipev, localv, files, system_info,
                   exit_code, committed, batchOpen, pending, status_file,
                   procv, interrupts, exit, histv>>

\* lines 38-43: job_backend.start() and the dispatch on is_simple_model()
StartDispatch ==
    /\ pc = "s_start"
    /\ started' = TRUE
    /\ pc' = IF simple THEN "k_setup" ELSE "c_check"
    /\ UNCHANGED <<cfgv, pipev, localv, files, storev, status_file, procv,
                   interrupts, exit, histv>>

(***************************************************************************)
(* start_custom, lines 46-173: command and image resolution                *)
(***************************************************************************)
\* a check of the keys alone, without the test for the empty string
MissingCommandKeysOnly(jc, pcfg) ==
    IsAbsent(jc.command) /\ IsAbsent(pcfg.command)

\* line 65
MissingCommand(jc, pcfg) ==
    IsAbsent(jc.command)
    /\ (IsAbsent(pcfg.command) \/ IsEmptyStr(pcfg.command))

\* a resolution that prefers the project-level command
ResolveCommandProjectFirst(jc, pcfg) ==
    IF ~IsAbsent(pcfg.command) THEN pcfg.command ELSE jc.command

\* lines 69-72
ResolveCommand(jc, pcfg) ==
    IF ~IsAbsent(jc.command) THEN jc.command ELSE pcfg.command

\* lines 74-76
ResolveImage(jc) ==
    IF ~IsAbsent(jc.image) THEN jc.image.v[1] ELSE NoImage

\* lines 61-79
CheckCommand ==
    /\ pc = "c_check"
    /\ IF MissingCommand(job_config, project_config)
       THEN /\ errors' = errors + 1
            /\ pc' = "ended"
            /\ exit' = Ended("exit", SysExit(1))
            /\ UNCHANGED <<command, image>>
       ELSE /\ command' = ResolveCommand(job_config, project_config)
            /\ image' = ResolveImage(job_config)
            /\ pc' = "c_image"
            /\ UNCHANGED <<errors, exit>>
    /\ UNCHANGED <<cfgv, started, pipev, dockerfile, p, wait_stdout,
                   wait_stderr, inspection, bi, call, files, storev,
                   status_file, procv, interrupts, termCalls, spawned, rcs,
                   classif>>

\* lines 81-82
ImageInfo ==
    /\ pc = "c_image"
    /\ IF image # NoImage
       THEN SetSystemInfo("image/name") /\ pc' = "c_synth"
       ELSE UNCHANGED <<system_info, pending>> /\ pc' = "c_wrap"
    /\ UNCHANGED <<cfgv, started, pipev, localv, files, status, exit_code,
                   committed, batchOpen, status_file, procv, interrupts, exit,
                   histv>>

\* a supervisor that builds an image for every job with an image
NeedsBuildAlways(pcfg) == TRUE

\* line 84
NeedsBuild(pcfg) == Truthy(pcfg.dockerfile) \/ Truthy(pcfg.install)

\* line 87
UsesExistingFile(pcfg) == IsStr(pcfg.dockerfile) /\ pcfg.dockerfile_exists

\* lines 84-109: skip the build, use the existing file, or synthesize the
\* build file and write it to ./Dockerfile
Synthesize ==
    /\ pc = "c_synth"
    /\ IF ~NeedsBuild(project_config)
       THEN /\ pc' = "c_pull"
            /\ UNCHANGED <<dockerfile, files, exit, batchOpen, pending>>
       ELSE IF UsesExistingFile(project_config)
       THEN /\ dockerfile' = project_config.dockerfile
            /\ pc' = "c_build"
            /\ UNCHANGED <<files, exit, batchOpen, pending>>
       ELSE LET r == SynthesizeDockerfile(project_config.dockerfile,
                                          project_config.install, image)
            IN  IF r.ok
                THEN /\ files' = r.content
                     /\ dockerfile' = Str(<< <<"Dockerfile">> >>)
                     /\ pc' = "c_commit"
                     /\ UNCHANGED <<exit, batchOpen, pending>>
                ELSE /\ Uncaught("exception")
                     /\ UNCHANGED <<dockerfile, files>>
    /\ UNCHANGED <<cfgv, started, pipev, command, image, p, wait_stdout,
                   wait_stderr, inspection, bi, call, status, system_info,
                   exit_code, committed, status_file, procv, interrupts,
                   histv>>

\* line 110
CommitDockerfile ==
    /\ pc = "c_commit"
    /\ committed' = committed \cup {"Dockerfile"}
    /\ pc' = "c_build"
    /\ UNCHANGED <<cfgv, started, pipev, localv, files, status, system_info,
                   exit_code, batchOpen, pending, status_file, procv,
                   interrupts, exit, histv>>

\* lines 112-122: the call of execute_command for docker build
Build ==
    /\ pc = "c_build"
    /\ call' = "build"
    /\ pc' = "x_popen"
    /\ UNCHANGED <<cfgv, started, pipev, command, image, dockerfile, p,
                   wait_stdout, wait_stderr, inspection, bi, files, storev,
                   status_file, procv, interrupts, exit, histv>>


(***************************************************************************)
(* Processes and drain tasks                                               *)
(***************************************************************************)
\* what a process is started on: the image of docker pull (line 131) and
\* docker inspect (line 134), the tag of docker build (line 117), the
\* container of docker rm (line 149), argv[0] of the job command (line 180)
SpawnArg(kind) ==
    CASE kind \in {"pull", "inspect"} -> image
      [] kind = "build" -> ModelName
      [] kind = "rm" -> JobId
      [] OTHER -> command.v[1]

\* subprocess.Popen: the process exists and runs, its pipes are empty
Spawn(kind) ==
    /\ proc' = [kind |-> kind, state |-> "running", rc |-> 0]
    /\ drain' = NoDrain
    /\ fin' = NoFin
    /\ spawned' = Append(spawned, kind)
    /\ spawn_args' = Append(spawn_args, SpawnArg(kind))
    /\ written' = NoChunks
    /\ pipe' = NoChunks
    /\ sink' = NoChunks

CodesOf(kind) == IF kind \in {"build", "cmd"} THEN ExitCodes ELSE ToolCodes

\* the running process exits with some code (the processes are followed
\* until the supervisor has ended)
ProcExit ==
    /\ pc # "ended"
    /\ proc.state = "running"
    /\ \E rc \in CodesOf(proc.kind) :
          /\ proc' = [proc EXCEPT !.state = "exited", !.rc = rc]
          /\ rcs' = [rcs EXCEPT ![proc.kind] = Append(@, rc)]
    /\ UNCHANGED <<pc, cfgv, started, pipev, localv, files, storev,
                   status_file, drain, fin, interrupts, exit, termCalls,
                   spawned, classif, errors>>

\* the launched command is itself a supervisor and writes its own status
\* record into the store
ChildWritesStatus ==
    /\ pc # "ended"
    /\ proc.kind = "cmd"
    /\ proc.state = "running"
    /\ ~status_file
    /\ status_file' = TRUE
    /\ UNCHANGED <<pc, cfgv, started, pipev, localv, files, storev, procv,
                   interrupts, exit, histv>>

\* kinds of the processes started with stdout=PIPE, stderr=PIPE and
\* drained by attach (lines 180-182, 227-229)
Piped == {"build", "pull", "cmd"}

\* the process writes its next chunk to a stream; the write blocks while
\* the pipe is full
ChildWrite(s) ==
    /\ pc # "ended"
    /\ proc.state = "running"
    /\ proc.kind \in Piped
    /\ Len(written[s]) < MaxChunks
    /\ Len(pipe[s]) < PipeCapacity
    /\ written' = [written EXCEPT ![s] = Append(@, Len(@) + 1)]
    /\ pipe' = [pipe EXCEPT ![s] = Append(@, Len(written[s]) + 1)]
    /\ UNCHANGED <<pc, cfgv, started, localv, files, storev, status_file,
                   procv, interrupts, exit, histv, sink, spawn_args>>

\* a drain task reads the oldest chunk of its pipe and forwards it
DrainRead(s) ==
    /\ pc # "ended"
    /\ drain[s] = "attached"
    /\ pipe[s] # <<>>
    /\ sink' = [sink EXCEPT ![s] = Append(@, Head(pipe[s]))]
    /\ pipe' = [pipe EXCEPT ![s] = Tail(@)]
    /\ UNCHANGED <<pc, cfgv, started, localv, files, storev, status_file,
                   procv, interrupts, exit, histv, written, spawn_args>>

\* a drain task has read its stream to the end: the producer closed it
\* and nothing is left in the pipe
DrainEOF(s) ==
    /\ pc # "ended"
    /\ drain[s] = "attached"
    /\ proc.state = "exited"
    /\ pipe[s] = <<>>
    /\ drain' = [drain EXCEPT ![s] = "eof"]
    /\ UNCHANGED <<pc, cfgv, started, pipev, localv, files, storev,
                   status_file, proc, fin, interrupts, exit, histv>>

\* sys.stdout.attach(p.stdout) / sys.stderr.attach(p.stderr)
Attach(s) == drain' = [drain EXCEPT ![s] = "attached"]

\* the finalizer an attach returned: returns once its drain task is done
FinalizerReady(s) == drain[s] = "eof"
Finalize(s) == fin' = [fin EXCEPT ![s] = TRUE]

(***************************************************************************)
(* execute_command, lines 226-235                                          *)
(***************************************************************************)
\* line 227
ExecPopen ==
    /\ pc = "x_popen"
    /\ Spawn(call)
    /\ pc' = "x_attach_out"
    /\ UNCHANGED <<cfgv, started, localv, files, storev, status_file,
                   interrupts, exit, termCalls, rcs, classif, errors>>

\* line 228
ExecAttachOut ==
    /\ pc = "x_attach_out"
    /\ Attach("out")
    /\ pc' = "x_attach_err"
    /\ UNCHANGED <<cfgv, started, pipev, localv, files, storev, status_file,
                   proc, fin, interrupts, exit, histv>>

\* line 229
ExecAttachErr ==
    /\ pc = "x_attach_err"
    /\ Attach("err")
    /\ pc' = "x_wait"
    /\ UNCHANGED <<cfgv, started, pipev, localv, files, storev, status_file,
                   proc, fin, interrupts, exit, histv>>

\* line 231
ExecWait ==
    /\ pc = "x_wait"
    /\ proc.state = "exited"
    /\ pc' = "x_fin_out"
    /\ UNCHANGED <<cfgv, started, pipev, localv, files, storev, status_file,
                   procv, interrupts, exit, histv>>

\* line 232
ExecFinOut ==
    /\ pc = "x_fin_out"
    /\ FinalizerReady("out")
    /\ Finalize("out")
    /\ pc' = "x_fin_err"
    /\ UNCHANGED <<cfgv, started, pipev, localv, files, storev, status_file,
                   proc, drain, interrupts, exit, histv>>

\* lines 233-235: the last finalizer, and the return to the caller
ExecFinErr ==
    /\ pc = "x_fin_err"
    /\ FinalizerReady("err")
    /\ Finalize("err")
    /\ pc' = IF call = "build" THEN "c_build_chk" ELSE "c_inspect"
    /\ UNCHANGED <<cfgv, started, pipev, localv, files, storev, status_file,
                   proc, drain, interrupts, exit, histv>>

(***************************************************************************)
(* start_custom, lines 124-168: image provisioning                         *)
(***************************************************************************)
\* a check that takes only a positive return code for a failure
BuildFailsPositive(rc) == rc > 0

\* line 124: if p.returncode
BuildFails(rc) == rc # 0

\* lines 124-128
BuildCheck ==
    /\ pc = "c_build_chk"
    /\ IF BuildFails(proc.rc)
       THEN /\ Terminal("fail", "Failed")
            /\ pc' = "c_build_exit"
            /\ UNCHANGED image
       ELSE /\ image' = ModelName
            /\ pc' = "c_pull"
            /\ UNCHANGED <<status, termCalls>>
    /\ UNCHANGED <<cfgv, started, pipev, command, dockerfile, p, wait_stdout,
                   wait_stderr, inspection, bi, call, files, system_info,
                   exit_code, committed, batchOpen, pending, status_file,
                   procv, interrupts, exit, spawned, rcs, classif, errors>>

\* line 126
BuildExit ==
    /\ pc = "c_build_exit"
    /\ pc' = "ended"
    /\ exit' = Ended("exit", SysExit(proc.rc))
    /\ UNCHANGED <<cfgv, started, pipev, localv, files, storev, status_file,
                   procv, interrupts, histv>>

\* lines 130-132: the call of execute_command for docker pull; what it
\* returns is dropped
Pull ==
    /\ pc = "c_pull"
    /\ call' = "pull"
    /\ pc' = "x_popen"
    /\ UNCHANGED <<cfgv, started, pipev, command, image, dockerfile, p,
                   wait_stdout, wait_stderr, inspection, bi, files, storev,
                   status_file, procv, interrupts, exit, histv>>


\* the fields of inspections[0] read by lines 139-146, and the keys written
ImageFields == <<"Id", "DockerVersion", "Created", "Container",
                 "Architecture", "Os", "Size", "RootFS">>
ImageKeys == <<"image/id", "image/docker_version", "image/created",
               "image/container", "image/architecture", "image/os",
               "image/size", "image/rootfs">>
AllFields == {ImageFields[i] : i \in 1..Len(ImageFields)}

\* what docker inspect can print with return code 0: no object, an object
\* with every field, an object without the Container field
InspectOutputs == {{}, AllFields, AllFields \ {"Container"}}

\* line 215
InspectPopen ==
    /\ pc = "c_inspect"
    /\ Spawn("inspect")
    /\ pc' = "i_communicate"
    /\ UNCHANGED <<cfgv, started, localv, files, storev, status_file,
                   interrupts, exit, termCalls, rcs, classif, errors>>

\* lines 216-223 and 134-137: communicate() returns when the process has
\* exited; a non-zero return code raises, else the output is parsed
InspectCommunicate ==
    /\ pc = "i_communicate"
    /\ proc.state = "exited"
    /\ IF proc.rc # 0
       THEN /\ Uncaught("exception")
            /\ UNCHANGED <<inspection, bi>>
       ELSE /\ \E out \in InspectOutputs :
                  /\ inspection' = out
                  /\ pc' = IF out # {} THEN "b_enter" ELSE "c_rm"
            /\ bi' = 1
            /\ UNCHANGED <<exit, batchOpen, pending>>
    /\ UNCHANGED <<cfgv, started, pipev, command, image, dockerfile, p,
                   wait_stdout, wait_stderr, call, files, status, system_info,
                   exit_code, committed, status_file, procv, interrupts,
                   histv>>

\* line 138: with job_backend.git.batch_commit('Docker image')
BatchEnter ==
    /\ pc = "b_enter"
    /\ batchOpen' = TRUE
    /\ pc' = "b_set"
    /\ UNCHANGED <<cfgv, started, pipev, localv, files, status, system_info,
                   exit_code, committed, pending, status_file, procv,
                   interrupts, exit, histv>>

\* lines 139-146: the next set_system_info; a field the inspection lacks
\* raises KeyError
BatchSet ==
    /\ pc = "b_set"
    /\ IF ImageFields[bi] \in inspection
       THEN /\ SetSystemInfo(ImageKeys[bi])
            /\ bi' = bi + 1
            /\ pc' = IF bi = Len(ImageFields) THEN "b_exit" ELSE "b_set"
            /\ UNCHANGED <<exit, batchOpen>>
       ELSE /\ Uncaught("exception")
            /\ UNCHANGED <<system_info, bi>>
    /\ UNCHANGED <<cfgv, started, pipev, command, image, dockerfile, p,
                   wait_stdout, wait_stderr, inspection, call, files, status,
                   exit_code, committed, status_file, procv, interrupts,
                   histv>>

\* the scope is left normally: its writes are committed together
BatchExit ==
    /\ pc = "b_exit"
    /\ system_info' = system_info \cup pending
    /\ pending' = {}
    /\ batchOpen' = FALSE
    /\ pc' = "c_rm"
    /\ UNCHANGED <<cfgv, started, pipev, localv, files, status, exit_code,
                   committed, status_file, procv, interrupts, exit, histv>>

\* line 149: subprocess.call spawns docker rm ...
RmPopen ==
    /\ pc = "c_rm"
    /\ Spawn("rm")
    /\ pc' = "r_wait"
    /\ UNCHANGED <<cfgv, started, localv, files, storev, status_file,
                   interrupts, exit, termCalls, rcs, classif, errors>>

\* a checked removal (subprocess.check_call): a failing docker rm raises
RmWaitChecked ==
    /\ pc = "r_wait"
    /\ proc.state = "exited"
    /\ IF proc.rc # 0
       THEN Uncaught("exception")
       ELSE /\ pc' = "c_docker_cmd"
            /\ UNCHANGED <<exit, batchOpen, pending>>
    /\ UNCHANGED <<cfgv, started, pipev, localv, files, status, system_info,
                   exit_code, committed, status_file, procv, interrupts,
                   histv>>

\* ... and waits for it; the return code is dropped
RmWait ==
    /\ pc = "r_wait"
    /\ proc.state = "exited"
    /\ pc' = "c_docker_cmd"
    /\ UNCHANGED <<cfgv, started, pipev, localv, files, storev, status_file,
                   procv, interrupts, exit, histv>>

\* lines 163-166 and 170-171: a command that is no list runs under sh -c
ShellWrap(cmd) == IF IsList(cmd) THEN cmd.v ELSE <<"sh", "-c">> \o cmd.v

\* lines 151-168
DockerRun(cmd, img) ==
    <<Docker, "run", "--name", JobId>>
    \o DockerOptions
    \o <<"--mount", "type=bind,source=" \o WorkTree \o ",destination=/exp">>
    \o <<"-w", "/exp">>
    \o <<img>>
    \o ShellWrap(cmd)

DockerCommand ==
    /\ pc = "c_docker_cmd"
    /\ command' = List(DockerRun(command, image))
    /\ pc' = "c_wrap"
    /\ UNCHANGED <<cfgv, started, pipev, image, dockerfile, p, wait_stdout,
                   wait_stderr, inspection, bi, call, files, storev,
                   status_file, procv, interrupts, exit, histv>>

\* lines 170-177
WrapCommand ==
    /\ pc = "c_wrap"
    /\ command' = List(ShellWrap(command))
    /\ pc' = "t_section"
    /\ UNCHANGED <<cfgv, started, pipev, image, dockerfile, p, wait_stdout,
                   wait_stderr, inspection, bi, call, files, storev,
                   status_file, procv, interrupts, exit, histv>>


(***************************************************************************)
(* start_custom, lines 178-193: the try block                              *)
(***************************************************************************)
\* line 179
TrySection ==
    /\ pc = "t_section"
    /\ status' = "Running"
    /\ pc' = "t_popen"
    /\ UNCHANGED <<cfgv, started, pipev, localv, files, system_info,
                   exit_code, committed, batchOpen, pending, status_file,
                   procv, interrupts, exit, histv>>

\* line 180, the call: the child is spawned, or Popen raises OSError
TryPopen ==
    /\ pc = "t_popen"
    /\ \/ /\ Spawn("cmd")
          /\ pc' = "t_assign"
          /\ UNCHANGED <<exit, batchOpen, pending>>
       \/ /\ Uncaught("launch_error")
          /\ UNCHANGED <<procv, spawned, pipev>>
    /\ UNCHANGED <<cfgv, started, localv, files, status, system_info,
                   exit_code, committed, status_file, interrupts, termCalls,
                   rcs, classif, errors>>

\* line 180, the assignment to p
TryAssign ==
    /\ pc = "t_assign"
    /\ p' = "set"
    /\ pc' = "t_attach_out"
    /\ UNCHANGED <<cfgv, started, pipev, command, image, dockerfile,
                   wait_stdout, wait_stderr, inspection, bi, call, files,
                   storev, status_file, procv, interrupts, exit, histv>>

\* line 181
TryAttachOut ==
    /\ pc = "t_attach_out"
    /\ Attach("out")
    /\ wait_stdout' = TRUE
    /\ pc' = "t_attach_err"
    /\ UNCHANGED <<cfgv, started, pipev, command, image, dockerfile, p,
                   wait_stderr, inspection, bi, call, files, storev,
                   status_file, proc, fin, interrupts, exit, histv>>

\* the stdout pipe attached a second time in place of the stderr pipe
TryAttachErrOnStdout ==
    /\ pc = "t_attach_err"
    /\ Attach("out")
    /\ wait_stderr' = TRUE
    /\ pc' = "t_wait"
    /\ UNCHANGED <<cfgv, started, pipev, command, image, dockerfile, p,
                   wait_stdout, inspection, bi, call, files, storev,
                   status_file, proc, fin, interrupts, exit, histv>>

\* line 182
TryAttachErr ==
    /\ pc = "t_attach_err"
    /\ Attach("err")
    /\ wait_stderr' = TRUE
    /\ pc' = "t_wait"
    /\ UNCHANGED <<cfgv, started, pipev, command, image, dockerfile, p,
                   wait_stdout, inspection, bi, call, files, storev,
                   status_file, proc, fin, interrupts, exit, histv>>

\* line 184
TryWait ==
    /\ pc = "t_wait"
    /\ proc.state = "exited"
    /\ pc' = "t_fin_out"
    /\ UNCHANGED <<cfgv, started, pipev, localv, files, storev, status_file,
                   procv, interrupts, exit, histv>>

\* line 185
TryFinOut ==
    /\ pc = "t_fin_out"
    /\ FinalizerReady("out")
    /\ Finalize("out")
    /\ pc' = "t_fin_err"
    /\ UNCHANGED <<cfgv, started, pipev, localv, files, storev, status_file,
                   proc, drain, interrupts, exit, histv>>

\* line 186
TryFinErr ==
    /\ pc = "t_fin_err"
    /\ FinalizerReady("err")
    /\ Finalize("err")
    /\ pc' = "t_setinfo"
    /\ UNCHANGED <<cfgv, started, pipev, localv, files, storev, status_file,
                   proc, drain, interrupts, exit, histv>>

\* a try block that goes on to the check without writing exit_code
TrySetExitCodeSkipped ==
    /\ pc = "t_setinfo"
    /\ pc' = "t_check"
    /\ UNCHANGED <<cfgv, started, pipev, localv, files, storev, status_file,
                   procv, interrupts, exit, histv>>

\* line 188
TrySetExitCode ==
    /\ pc = "t_setinfo"
    /\ SetSystemInfo("exit_code")
    /\ exit_code' = Append(exit_code, proc.rc)
    /\ pc' = "t_check"
    /\ UNCHANGED <<cfgv, started, pipev, localv, files, status, committed,
                   batchOpen, status_file, procv, interrupts, exit, histv>>

\* line 190: which terminal transition the return code asks for
AfterExit(rc) == IF rc # 0 THEN <<"fail", "Failed">> ELSE <<>>

\* lines 190-191
TryCheck ==
    /\ pc = "t_check"
    /\ LET t == AfterExit(proc.rc)
       IN  IF t # <<>>
           THEN Terminal(t[1], t[2])
           ELSE UNCHANGED <<status, termCalls>>
    /\ pc' = "t_exit"
    /\ UNCHANGED <<cfgv, started, pipev, localv, files, system_info,
                   exit_code, committed, batchOpen, pending, status_file,
                   procv, interrupts, exit, spawned, rcs, classif, errors>>

\* line 193: SystemExit leaves the try block, no except clause matches it
TryExit ==
    /\ pc = "t_exit"
    /\ pc' = "ended"
    /\ exit' = Ended("exit", SysExit(proc.rc))
    /\ UNCHANGED <<cfgv, started, pipev, localv, files, storev, status_file,
                   procv, interrupts, histv>>

(***************************************************************************)
(* start_custom, lines 194-211: except KeyboardInterrupt                   *)
(***************************************************************************)
\* line 199: p and p.poll() is None
ChildStillRuns(handle, process) ==
    handle = "set" /\ process.state = "running"

HandlerPoll ==
    /\ pc = "h_poll"
    /\ pc' = IF ChildStillRuns(p, proc) THEN "h_wait" ELSE "h_classify"
    /\ UNCHANGED <<cfgv, started, pipev, localv, files, storev, status_file,
                   procv, interrupts, exit, histv>>

\* line 200
HandlerWait ==
    /\ pc = "h_wait"
    /\ proc.state = "exited"
    /\ pc' = "h_fin_out"
    /\ UNCHANGED <<cfgv, started, pipev, localv, files, storev, status_file,
                   procv, interrupts, exit, histv>>

\* line 201
HandlerFinOut ==
    /\ pc = "h_fin_out"
    /\ IF wait_stdout
       THEN FinalizerReady("out") /\ Finalize("out")
       ELSE UNCHANGED fin
    /\ pc' = "h_fin_err"
    /\ UNCHANGED <<cfgv, started, pipev, localv, files, storev, status_file,
                   proc, drain, interrupts, exit, histv>>

\* line 202
HandlerFinErr ==
    /\ pc = "h_fin_err"
    /\ IF wait_stderr
       THEN FinalizerReady("err") /\ Finalize("err")
       ELSE UNCHANGED fin
    /\ pc' = "h_classify"
    /\ UNCHANGED <<cfgv, started, pipev, localv, files, storev, status_file,
                   proc, drain, interrupts, exit, histv>>

\* a handler that always aborts
ClassifyAlwaysAbort(has_file) == <<"abort", "Aborted">>

\* lines 206-211: stop() if the nested status file is in the store, else
\* abort()
Classify(has_file) ==
    IF has_file THEN <<"stop", "Stopped">> ELSE <<"abort", "Aborted">>

\* lines 206-211, then start_custom and start return and the process ends
HandlerClassify ==
    /\ pc = "h_classify"
    /\ LET t == Classify(status_file)
       IN  Terminal(t[1], t[2])
    /\ classif' = [done |-> TRUE,
                   exited |-> proc.state # "running",
                   out |-> fin.out, err |-> fin.err,
                   file |-> status_file]
    /\ pc' = "ended"
    /\ exit' = Ended("return", 0)
    /\ UNCHANGED <<cfgv, started, pipev, localv, files, system_info,
                   exit_code, committed, batchOpen, pending, status_file,
                   procv, interrupts, spawned, rcs, errors>>

(***************************************************************************)
(* start_keras, lines 250-286                                              *)
(***************************************************************************)
\* lines 251-275: the 'Git Version' batch of two keys, left normally
KerasSetup ==
    /\ pc = "k_setup"
    /\ system_info' = system_info \cup {"git_remote_url", "git_version"}
    /\ pc' = "k_progress"
    /\ UNCHANGED <<cfgv, started, pipev, localv, files, status, exit_code,
                   committed, batchOpen, pending, status_file, procv,
                   interrupts, exit, histv>>

\* line 278
KerasProgress ==
    /\ pc = "k_progress"
    /\ status' = "Progressing"
    /\ pc' = "k_train"
    /\ UNCHANGED <<cfgv, started, pipev, localv, files, system_info,
                   exit_code, committed, batchOpen, pending, status_file,
                   procv, interrupts, exit, histv>>

\* lines 280-281
KerasTrain ==
    /\ pc = "k_train"
    /\ pc' = "k_done"
    /\ UNCHANGED <<cfgv, started, pipev, localv, files, storev, status_file,
                   procv, interrupts, exit, histv>>

\* line 283, then start_keras and start return and the process ends
KerasDone ==
    /\ pc = "k_done"
    /\ Terminal("done", "Done")
    /\ pc' = "ended"
    /\ exit' = Ended("return", 0)
    /\ UNCHANGED <<cfgv, started, pipev, localv, files, system_info,
                   exit_code, committed, batchOpen, pending, status_file,
                   procv, interrupts, spawned, rcs, classif, errors>>

\* lines 284-286
KerasExcept ==
    /\ pc = "k_except"
    /\ pc' = "ended"
    /\ exit' = Ended("exit", SysExit(1))
    /\ UNCHANGED <<cfgv, started, pipev, localv, files, storev, status_file,
                   procv, interrupts, histv>>

(***************************************************************************)
(* The external interrupt: KeyboardInterrupt is raised in the control      *)
(* thread at the statement it is at.                                       *)
(***************************************************************************)
\* statements inside try: of start_custom (lines 179-193)
InCustomTry(at) ==
    at \in {"t_section", "t_popen", "t_assign", "t_attach_out",
            "t_attach_err", "t_wait", "t_fin_out", "t_fin_err", "t_setinfo",
            "t_check", "t_exit"}

\* statements inside try: of start_keras (lines 278-283)
InKerasTry(at) == at \in {"k_progress", "k_train", "k_done"}

\* statements of the interrupt handler that wait for the child or drain its
\* streams (lines 199-202)
InHandlerWait(at) == at \in {"h_poll", "h_wait", "h_fin_out", "h_fin_err"}

\* a handler that shields its own wait: an interrupt raised while it waits
\* or drains is swallowed and the run goes on to classify
HandlerOfShielded(at) ==
    IF InCustomTry(at) THEN "h_poll"
    ELSE IF InHandlerWait(at) THEN "h_classify"
    ELSE IF InKerasTry(at) THEN "k_except"
    ELSE "ended"

\* where the control thread continues when KeyboardInterrupt is raised at
\* statement at: in the except clause around it, or nowhere
HandlerOf(at) ==
    IF InCustomTry(at) THEN "h_poll"
    ELSE IF InKerasTry(at) THEN "k_except"
    ELSE "ended"

Interrupt ==
    /\ pc # "ended"
    /\ interrupts < MaxInterrupts
    /\ interrupts' = interrupts + 1
    /\ IF HandlerOf(pc) # "ended"
       THEN /\ pc' = HandlerOf(pc)
            /\ UNCHANGED <<exit, batchOpen, pending>>
       ELSE Uncaught("interrupt")
    /\ UNCHANGED <<cfgv, started, pipev, localv, files, status, system_info,
                   exit_code, committed, status_file, procv, histv>>

Next ==
    \/ StartCheckout \/ StartDispatch
    \/ CheckCommand \/ ImageInfo \/ Synthesize \/ CommitDockerfile \/ Build
    \/ ExecPopen \/ ExecAttachOut \/ ExecAttachErr \/ ExecWait
    \/ ExecFinOut \/ ExecFinErr
    \/ BuildCheck \/ BuildExit \/ Pull
    \/ InspectPopen \/ InspectCommunicate
    \/ BatchEnter \/ BatchSet \/ BatchExit
    \/ RmPopen \/ RmWait \/ DockerCommand \/ WrapCommand
    \/ TrySection \/ TryPopen \/ TryAssign \/ TryAttachOut \/ TryAttachErr
    \/ TryWait \/ TryFinOut \/ TryFinErr \/ TrySetExitCode \/ TryCheck
    \/ TryExit
    \/ HandlerPoll \/ HandlerWait \/ HandlerFinOut \/ HandlerFinErr
    \/ HandlerClassify
    \/ KerasSetup \/ KerasProgress \/ KerasTrain \/ KerasDone \/ KerasExcept
    \/ ProcExit \/ ChildWritesStatus
    \/ DrainEOF("out") \/ DrainEOF("err")
    \/ Interrupt

Spec == Init /\ [][Next]_vars

(***************************************************************************)
(* The runs of start_custom followed chunk by chunk: one command          *)
(* configuration without an image (the child of line 180) and one with an *)
(* image that needs no build (docker pull through execute_command, then   *)
(* the child of line 180), with the writes of the processes and the reads *)
(* of the drain tasks as steps of their own.                               *)
(***************************************************************************)
PipedConfigs ==
    {c \in CommandConfigs :
        c.job.command = Str(<<"jobcmd">>) /\ IsAbsent(c.project.command)}

PipedInit ==
    /\ Init
    /\ ~simple
    /\ [job |-> job_config, project |-> project_config] \in PipedConfigs

PipedNext ==
    \/ StartCheckout \/ StartDispatch
    \/ CheckCommand \/ ImageInfo \/ Synthesize
    \/ ExecPopen \/ ExecAttachOut \/ ExecAttachErr \/ ExecWait
    \/ ExecFinOut \/ ExecFinErr
    \/ Pull
    \/ InspectPopen \/ InspectCommunicate
    \/ BatchEnter \/ BatchSet \/ BatchExit
    \/ RmPopen \/ RmWait \/ DockerCommand \/ WrapCommand
    \/ TrySection \/ TryPopen \/ TryAssign \/ TryAttachOut \/ TryAttachErr
    \/ TryWait \/ TryFinOut \/ TryFinErr \/ TrySetExitCode \/ TryCheck
    \/ TryExit
    \/ HandlerPoll \/ HandlerWait \/ HandlerFinOut \/ HandlerFinErr
    \/ HandlerClassify
    \/ ProcExit
    \/ ChildWrite("out") \/ ChildWrite("err")
    \/ DrainRead("out") \/ DrainRead("err")
    \/ DrainEOF("out") \/ DrainEOF("err")
    \/ Interrupt

DrainSpec == PipedInit /\ [][PipedNext]_vars


(***************************************************************************)
(* Properties                                                              *)
(***************************************************************************)
Has(seq, x) == \E i \in 1..Len(seq) : seq[i] = x
Launched == Has(spawned, "cmd")

\* C1: in every run, with interrupts arriving at any point, at most one of
\* the terminal transitions fail / abort / stop / done is applied to the job
C1_AtMostOneTerminal == Len(termCalls) <= 1

\* C2: when start_custom is interrupted (once) after the command was
\* launched, the supervisor ends having classified the run, and the final
\* state is Stopped if the nested status file was in the store when it
\* classified and Aborted if it was not
C2_InterruptClassification ==
    (pc = "ended" /\ Launched /\ interrupts = 1)
        => /\ classif.done
           /\ classif.file
                 => (status = "Stopped" /\ termCalls[Len(termCalls)] = "stop")
           /\ ~classif.file
                 => (status = "Aborted" /\ termCalls[Len(termCalls)] = "abort")

C2_Witness ==
    /\ pc = "ended" /\ Launched /\ interrupts = 1
    /\ classif.done /\ classif.file /\ status = "Stopped"

\* C3: when the first interrupt arrives during p.wait(), during a drain
\* finalizer or after them (both finalizers are assigned by then), the
\* handler records Stopped or Aborted only after the child has exited and
\* both the stdout and the stderr finalizer have returned
C3_ClassifyAfterDrain ==
    (classif.done /\ wait_stdout /\ wait_stderr)
        => (classif.exited /\ classif.out /\ classif.err)

\* C4: in start_custom without an interrupt, when the supervisor exits the
\* job is Done if the child exited with code 0 and Failed otherwise
C4_DoneOrFailed ==
    (pc = "ended" /\ exit.kind = "exit" /\ Launched /\ interrupts = 0)
        => status = (IF proc.rc = 0 THEN "Done" ELSE "Failed")

\* C5: in start_custom without an interrupt, for every child exit code c in
\* 0..255 the supervisor's own process exits with exactly c
C5_ExitCodePropagated ==
    (pc = "ended" /\ exit.kind = "exit" /\ Launched /\ interrupts = 0
     /\ proc.rc \in 0..255)
        => exit.code = proc.rc

C5_Witness ==
    /\ pc = "ended" /\ exit.kind = "exit" /\ Launched /\ interrupts = 0
    /\ proc.rc = 37 /\ exit.code = 37 /\ status = "Failed"


\* the configurations in which neither level supplies a command: no command
\* key in the job configuration, and no or an empty one in the project's
NoCommandConfigured ==
    /\ ~simple
    /\ job_config.command.t = "absent"
    /\ \/ project_config.command.t = "absent"
       \/ project_config.command = Str(<<>>)

\* C6: when neither level supplies a command, start_custom reports an
\* error, exits with a non-zero code, and no process at all is spawned
C6_MissingCommand ==
    NoCommandConfigured
        => /\ spawned = <<>>
           /\ pc \in {"start", "s_start", "c_check", "ended"}
           /\ (pc = "ended" /\ interrupts = 0)
                 => (errors = 1 /\ exit.kind = "exit" /\ exit.code # 0)

C6_Witness ==
    /\ NoCommandConfigured
    /\ project_config.command = Str(<<>>)
    /\ pc = "ended" /\ errors = 1 /\ exit.code = 1 /\ spawned = <<>>

ProvenanceKeys == {ImageKeys[i] : i \in 1..Len(ImageKeys)}
BuildReturned == rcs["build"] # <<>>
PullReturned == rcs["pull"] # <<>>

\* C7: when the container build returns a non-zero code b, none of the
\* later steps happens (no pull, inspect, provenance write, rm, launch),
\* and a run no interrupt cuts short ends with the job Failed and the
\* supervisor's exit code b (non-zero in any case, b itself for b in 1..255)
C7_BuildFailure ==
    (BuildReturned /\ rcs["build"][1] # 0)
        => /\ spawned = <<"build">>
           /\ (system_info \cup pending) \cap ProvenanceKeys = {}
           /\ (pc = "ended" /\ interrupts = 0)
                 => /\ status = "Failed"
                    /\ exit.kind = "exit"
                    /\ exit.code # 0
                    /\ rcs["build"][1] \in 1..255
                          => exit.code = rcs["build"][1]

C7_Witness ==
    /\ BuildReturned /\ rcs["build"][1] = 37
    /\ pc = "ended" /\ interrupts = 0
    /\ status = "Failed" /\ exit.code = 37

\* C8: when the image pull returns a non-zero code, the job command is
\* never launched and the run ends with the job Failed
C8_PullFailurePropagated ==
    (PullReturned /\ rcs["pull"][1] # 0)
        => /\ ~Launched
           /\ (pc = "ended" /\ interrupts = 0) => status = "Failed"

\* C9: in every state either all image/* keys of system_info are committed
\* or none is
C9_ImageKeysAtomic ==
    LET keys == ProvenanceKeys \cup {"image/name"}
    IN  system_info \cap keys = {} \/ keys \subseteq system_info

\* the first line of a text that is no comment, <<>> if there is none
IsComment(line) == Len(line) > 0 /\ line[1] = "#"
FirstNonComment(lines) ==
    LET idx == {i \in 1..Len(lines) : ~IsComment(lines[i])}
    IN  IF idx = {} THEN <<>>
        ELSE lines[CHOOSE i \in idx : \A j \in idx : i <= j]

\* the inputs for which start_custom synthesizes a build file
SynthesisInput ==
    /\ ~simple
    /\ ~IsAbsent(job_config.image)
    /\ ~MissingCommand(job_config, project_config)
    /\ NeedsBuild(project_config)
    /\ ~UsesExistingFile(project_config)

SynthesisRaised == pc = "ended" /\ exit.kind = "exception" /\ spawned = <<>>

\* C10: for every input for which a build file is synthesized, the
\* synthesis completes and the first non-comment line of the written
\* Dockerfile is FROM <image>
C10_SynthesizedFrom ==
    SynthesisInput
        => /\ ~SynthesisRaised
           /\ files # <<>> => FirstNonComment(files) = <<"FROM", ImageName>>

TerminalStates == {"Failed", "Aborted", "Stopped", "Done"}

\* C11: when exactly one interrupt was delivered to a run after the job was
\* started (job_backend.start() had been called), then once the supervisor
\* process has exited the job is in one of the terminal states Failed,
\* Aborted, Stopped, Done, and not in Checkout, Running or Progressing
C11_InterruptEndsTerminal ==
    (pc = "ended" /\ started /\ interrupts = 1)
        => status \in TerminalStates

\* what the job record holds: its state, the terminal calls applied, the
\* system_info keys and exit_code values, the committed files
JobRecord == <<status, termCalls, system_info, exit_code, committed>>

\* C12: an interrupt that arrives while the interrupt handler of start_custom
\* waits for the child or drains its streams (lines 199-202) ends the
\* supervisor in that step, and once the supervisor has ended no stop, abort,
\* fail or set_system_info is applied: the job record stays as it was before
\* that interrupt
C12_SecondInterruptEnds ==
    [][/\ (InHandlerWait(pc) /\ interrupts' = interrupts + 1)
            => (pc' = "ended" /\ exit'.kind = "interrupt"
                /\ JobRecord' = JobRecord)
       /\ pc = "ended" => (pc' = "ended" /\ JobRecord' = JobRecord)]_vars

\* the supervisor ended by the second interrupt while the child it was
\* waiting for in the handler still ran
C12_Witness ==
    /\ pc = "ended" /\ interrupts = 2 /\ exit.kind = "interrupt"
    /\ Launched /\ p = "set" /\ proc.state = "running"
    /\ termCalls = <<>> /\ status = "Running"

\* C13: a run that ends, after the job was started and without an interrupt,
\* because no command is configured at job and project level (line 65) or
\* because the resolved argv cannot be spawned (Popen raises, line 180) has
\* the final state Failed
C13_ConfigOrLaunchErrorFails ==
    (pc = "ended" /\ started /\ interrupts = 0
     /\ (errors > 0 \/ exit.kind = "launch_error"))
        => status = "Failed"

\* the chunks a process wrote to a stream are numbered in the order written
Numbered(seq) == \A i \in 1..Len(seq) : seq[i] = i

RunImage ==
    IF Has(spawned, "build") THEN ModelName ELSE job_config.image.v[1]

\* the command of the configuration: job level first, then project level
ConfiguredCommand ==
    IF IsAbsent(job_config.command) THEN project_config.command
    ELSE job_config.command

\* the words a configured command contributes to the argument vector
CommandWords ==
    IF ConfiguredCommand.t = "list" THEN ConfiguredCommand.v
    ELSE <<"sh", "-c", ConfiguredCommand.v[1]>>

\* C15: the argument vector start_custom launches is, with no image, the
\* list command unchanged or sh -c <command> for a string command, and with
\* an image docker run --name <job id>, the docker_options in their order,
\* the bind mount of the work tree, -w /exp, the image, then the list
\* command unchanged or sh -c <command>; the command is the job-level one
\* when present, else the project-level one
C15_LaunchedArgv ==
    Launched =>
        /\ IsList(command)
        /\ IF IsAbsent(job_config.image)
           THEN command.v = CommandWords
           ELSE command.v =
                    <<"docker", "run", "--name", "job1", "--rm", "-t",
                      "--mount", "type=bind,source=/wt,destination=/exp",
                      "-w", "/exp", RunImage>> \o CommandWords

\* a docker run of the project-level list command was launched
C15_Witness ==
    /\ Launched
    /\ IsAbsent(job_config.command) /\ IsList(project_config.command)
    /\ ~IsAbsent(job_config.image)
    /\ Len(command.v) = 13 /\ command.v[11] = ImageName
    /\ command.v[13] = "proj.py"

\* C16: the removal of a stale container (docker rm <job id>, line 149) has
\* no effect on the rest of the run: whatever its return code, the step that
\* takes its result goes on to build the docker run command and changes
\* nothing else (command, image, job record, exit of the supervisor), and
\* the run that follows launches docker run of the same image and command
C16_RmResultIgnored ==
    [][/\ (pc = "r_wait" /\ pc' # "r_wait" /\ interrupts' = interrupts)
            => /\ pc' = "c_docker_cmd"
               /\ exit' = exit
               /\ JobRecord' = JobRecord
               /\ localv' = localv
       /\ (pc = "c_docker_cmd" /\ pc' # "c_docker_cmd"
           /\ interrupts' = interrupts)
            => /\ pc' = "c_wrap"
               /\ command'.v[1] = "docker" /\ command'.v[2] = "run"
               /\ command'.v[11] = image
               /\ JobRecord' = JobRecord]_vars

\* docker rm failed (no stale container), the command was launched and the
\* supervisor passed on the exit code of the child
C16_Witness ==
    /\ rcs["rm"] = <<1>> /\ Launched
    /\ pc = "ended" /\ exit.kind = "exit" /\ exit.code = 37
    /\ status = "Failed"

\* the control thread is blocked on the exit of the child: p.wait() of
\* start_custom (line 184), of its interrupt handler (line 200) and of
\* execute_command (line 231)
BlockedOnChild == pc \in {"t_wait", "h_wait", "x_wait"}

\* both drain tasks of the process last spawned have been attached
BothAttached == drain["out"] # "none" /\ drain["err"] # "none"

\* C17: for every child started by start_custom or execute_command, both
\* drain tasks are attached before the control thread blocks on the exit of
\* the child; and on the uninterrupted path both finalizers have returned
\* before exit_code is written and before a terminal state is recorded
C17_AttachedBeforeWait ==
    /\ BlockedOnChild => BothAttached
    /\ (~simple /\ interrupts = 0 /\ (exit_code # <<>> \/ termCalls # <<>>))
            => (fin["out"] /\ fin["err"])

\* the same without the wait of the interrupt handler
C17_UninterruptedOrder ==
    /\ pc \in {"t_wait", "x_wait"} => BothAttached
    /\ (~simple /\ interrupts = 0 /\ (exit_code # <<>> \/ termCalls # <<>>))
            => (fin["out"] /\ fin["err"])

IsPrefix(a, b) == Len(a) <= Len(b) /\ a = SubSeq(b, 1, Len(a))

\* the processes of a run with an image, in the order of the provisioning
\* steps, with and without a build
StepOrders ==
    {<<"build", "pull", "inspect", "rm", "cmd">>,
     <<"pull", "inspect", "rm", "cmd">>}

\* C18: when an image is configured the provisioning steps happen in a fixed
\* order, all before the job command is spawned: build file written and
\* committed (when synthesized), build, pull, inspect, the image/* provenance
\* write, removal of the stale container, launch; and the job command exists
\* only once every earlier step is done and none of them has failed
C18_ProvisioningOrder ==
    ~IsAbsent(job_config.image) =>
        /\ \E o \in StepOrders : IsPrefix(spawned, o)
        /\ (Has(spawned, "build") /\ files # <<>>)
                => "Dockerfile" \in committed
        /\ (Has(spawned, "rm") /\ inspection # {})
                => ProvenanceKeys \subseteq system_info
        /\ Launched
                => /\ Has(spawned, "build") => rcs["build"] = <<0>>
                   /\ rcs["pull"] = <<0>>
                   /\ rcs["inspect"] = <<0>>
                   /\ rcs["rm"] # <<>>

\* the project configuration has neither a dockerfile nor install steps
NoBuildConfigured ==
    ~Truthy(project_config.dockerfile) /\ ~Truthy(project_config.install)

\* C19: with an image and neither a dockerfile nor install steps in the
\* project configuration no build file is written or committed and no build
\* runs, but the configured image is pulled and inspected, its provenance is
\* recorded and it is the image of the docker run command; when a build ran,
\* the image pulled, inspected and run is the model-name tag
C19_ImageWithoutBuild ==
    ~IsAbsent(job_config.image) =>
        /\ NoBuildConfigured
                => /\ files = <<>>
                   /\ "Dockerfile" \notin committed
                   /\ ~Has(spawned, "build")
        /\ \A i \in 1..Len(spawned) :
                spawned[i] \in {"pull", "inspect"}
                    => spawn_args[i] = RunImage
        /\ Launched
                => /\ Has(spawned, "pull") /\ Has(spawned, "inspect")
                   /\ command.v[11] = RunImage
                   /\ "image/name" \in system_info
                   /\ inspection = AllFields
                        => ProvenanceKeys \subseteq system_info

\* docker run of the configured image was launched after its pull and
\* inspect, without a build, with the provenance recorded
C19_Witness ==
    /\ ~IsAbsent(job_config.image) /\ NoBuildConfigured /\ Launched
    /\ spawned = <<"pull", "inspect", "rm", "cmd">>
    /\ spawn_args[1] = ImageName /\ spawn_args[2] = ImageName
    /\ command.v[11] = ImageName
    /\ ProvenanceKeys \subseteq system_info

\* C20: whenever the job is Failed because the launched child exited with a
\* non-zero code, system_info holds exit_code equal to that code (the write
\* of line 188 precedes fail() of line 191); and exit_code is written only
\* by a supervisor no interrupt has reached, after the child has exited
C20_ExitCodeBeforeFailed ==
    [][/\ (status' = "Failed" /\ Has(spawned', "cmd"))
            => /\ "exit_code" \in system_info'
               /\ exit_code' = <<proc'.rc>>
               /\ proc'.state = "exited" /\ proc'.rc # 0
       /\ exit_code' # exit_code
            => /\ interrupts = 0
               /\ proc.kind = "cmd" /\ proc.state = "exited"
               /\ status' # "Failed"]_vars

\* the job was marked Failed after the child exited with code 255, with
\* exit_code 255 in system_info
C20_Witness ==
    /\ status = "Failed" /\ Launched /\ proc.rc = 255
    /\ "exit_code" \in system_info /\ exit_code = <<255>>
    /\ termCalls = <<"fail">>

=============================================================================
